---------------------------- MODULE Spec2Model ----------------------------
(***************************************************************************)
(* A model of symcache/src/dwarf.rs: the DWARF line-program interpreter    *)
(* (DwarfLineProgram::parse, get_rows, get_filename), the function walker  *)
(* (Unit::get_functions, Unit::parse_location,                             *)
(* Function::append_line_if_changed) and the name resolver                 *)
(* (Unit::resolve_function_name, Unit::resolve_reference,                  *)
(* DwarfInfo::find_unit_offset).                                           *)
(*                                                                         *)
(* Three specifications share the variables:                               *)
(*   SpecLine  feeds program rows to the line-program interpreter and then *)
(*             queries get_rows;                                           *)
(*   Spec      walks the DIE stream of one unit (get_functions);           *)
(*   SpecName  resolves the name of one DIE.                               *)
(*                                                                         *)
(* Option<T> is a sequence: None is <<>> and Some(x) is <<x>>.  Vectors    *)
(* are sequences; Rust's 0-based index i is the TLA+ index i + 1.          *)
(***************************************************************************)
EXTENDS Integers, Sequences, FiniteSets

(***************************************************************************)
(* Integer widths.  TLC's integers are 32 bits wide, so the widths of the  *)
(* code are scaled down: Mod64 stands for 2^64 (u64 addresses), Mod32 for  *)
(* 2^32 (Function.len: u32) and Max16 for 0xffff (Line.line: u16).         *)
(***************************************************************************)
Mod64 == 16
Mod32 == 8
Max16 == 3

\* Bounds of the explored inputs.
MaxRows == 4
MaxAddr == 2
MaxDies == 4
NumUnits == 2
HeaderSize == 1
\* The capacity of the abbreviation cache (30 in the source), the number of
\* .debug_abbrev offsets the unit headers name, and the number of get_abbrev
\* calls followed.
CacheCapacity == 2
NumOffsets == 4
MaxCalls == 5

None == <<>>
Some(x) == <<x>>
IsSome(o) == o # <<>>
Unwrap(o) == o[1]

Last(s) == s[Len(s)]
Min2(a, b) == IF a < b THEN a ELSE b
SetMin(S) == CHOOSE x \in S : \A y \in S : x <= y

\* u64 `a - b` and `a + b`: the wrapped value, and whether the operation
\* overflowed (a panic when the build has overflow checks, a wrap otherwise).
Sub64(a, b) == [val |-> (a - b) % Mod64, ovf |-> a < b]
Add64(a, b) == [val |-> (a + b) % Mod64, ovf |-> a + b >= Mod64]

VARIABLES
    \* the build: "on" when arithmetic overflow panics (debug-assertions), "off"
    \* when it wraps.  Both builds behave alike until the first overflow, so
    \* the setting is "unknown" until an overflow shows which build runs.
    overflow_checks,
    \* DwarfLineProgram::parse
    lp_pc,              \* "rows" while next_row is read, "parsed", "queried", "panic", "idle"
    sequences,          \* Vec<DwarfSeq>
    sequence_rows,      \* Vec<DwarfRow>: the rows of the sequence being built
    prev_address,       \* u64
    nrows,              \* number of program rows read so far
    program_row,        \* an Option of the row next_row returned last
    decode_failed,      \* whether next_row returned Err(_)
    \* DwarfLineProgram::get_rows
    rng,                \* the Range last queried
    rows_out,           \* what get_rows returned for it
    \* Unit::get_functions
    pc,                 \* "start", "walk", "ok", "error", "panic", "abort", "idle"
    err,                \* the ConversionError message when pc = "error"
    vmaddr,             \* info.vmaddr
    dies,               \* the entries next_dfs has returned so far
    depth,              \* isize
    skipped_depth,      \* Option<isize>
    funcs,              \* &mut Vec<Function>
    \* Unit::resolve_function_name
    name_pc,            \* "resolve", "ok", "error", "idle"
    self_index,         \* self.index of the Unit the resolver is called on
    entries,            \* per unit, the entry read from it so far (an Option)
    cur,                \* <<unit index, unit offset>> of the entry being resolved
    frames,             \* number of nested resolve_function_name calls
    name_out,           \* the Option<name> returned when name_pc = "ok"
    name_err,           \* the ConversionError message when name_pc = "error"
    \* DwarfInfo::from_object and Unit::parse
    object,             \* the Object: which DWARF sections it has, well-formed or not
    info,               \* an Option of what DwarfInfo::from_object returned
    unit_top,           \* an Option of [index, entry]: the unit parsed, its top DIE
    unit,               \* what Unit::parse returned for it
    \* Unit::parse_location
    location_entry,     \* the entry parse_location is called on
    location,           \* an Option of what it returned
    \* DwarfInfo::find_unit_offset
    find_units,         \* self.sections.units: the unit headers [offset, size]
    find_offset,        \* the DebugInfoOffset looked up
    find_result,        \* an Option of what find_unit_offset returned
    \* DwarfInfo::get_abbrev
    debug_abbrev,       \* self.sections.debug_abbrev: per offset, what lies there
    abbrev_cache,       \* self.abbrev_cache: the entries, least recently used first
    abbrev_calls,       \* the get_abbrev calls of the operation so far: [offset, ok]
    abbrev_result       \* an Option of what the last call returned

lineVars == <<lp_pc, sequences, sequence_rows, prev_address, nrows, program_row,
              decode_failed, rng, rows_out>>
walkVars == <<pc, err, vmaddr, dies, depth, skipped_depth, funcs>>
nameVars == <<name_pc, self_index, entries, cur, frames, name_out, name_err>>
openVars == <<object, info, unit_top, unit>>
locationVars == <<location_entry, location, find_units, find_offset, find_result>>
cacheVars == <<debug_abbrev, abbrev_cache, abbrev_calls, abbrev_result>>
vars == <<overflow_checks, lineVars, walkVars, nameVars, openVars, locationVars,
          cacheVars>>

-----------------------------------------------------------------------------
(***************************************************************************)
(* slice::binary_search_by_key of the standard library, as the code calls  *)
(* it on rows (by address) and on lines (by addr).  keys is the sequence   *)
(* of keys of the slice.  The result is Ok(idx) or Err(idx), idx 0-based.  *)
(***************************************************************************)
RECURSIVE BinarySearchLoop(_, _, _, _)
BinarySearchLoop(keys, target, base, size) ==
    IF size > 1
    THEN LET half == size \div 2
             mid  == base + half
         IN BinarySearchLoop(keys, target,
                             IF keys[mid + 1] > target THEN base ELSE mid,
                             size - half)
    ELSE base

binary_search_by_key(keys, target) ==
    IF Len(keys) = 0
    THEN [ok |-> FALSE, idx |-> 0]
    ELSE LET base == BinarySearchLoop(keys, target, 0, Len(keys))
             k    == keys[base + 1]
         IN IF k = target
            THEN [ok |-> TRUE, idx |-> base]
            ELSE [ok |-> FALSE, idx |-> base + (IF k < target THEN 1 ELSE 0)]

(***************************************************************************)
(* dmsort::sort_by_key.  Drop-merge sort is not stable, so the order of    *)
(* elements with equal keys is not determined by the caller: the result is *)
(* any arrangement of the indices that is sorted by key.                   *)
(***************************************************************************)
RECURSIVE SortedOrders(_, _)
SortedOrders(keys, rest) ==
    IF rest = {}
    THEN {<<>>}
    ELSE LET m == SetMin({keys[i] : i \in rest})
         IN UNION {{<<i>> \o t : t \in SortedOrders(keys, rest \ {i})} :
                   i \in {j \in rest : keys[j] = m}}

\* A mis-sort: the vector is left as it is.
UnsortedOrders(keys) == {[i \in 1..Len(keys) |-> i]}

sort_by_key(keys) == SortedOrders(keys, 1..Len(keys))

Permute(s, order) == [i \in 1..Len(s) |-> s[order[i]]]

-----------------------------------------------------------------------------
(***************************************************************************)
(* DwarfLineProgram::parse: the loop over program_rows.next_row().         *)
(* A program row is [address, file_index, line, end_sequence]; line is an  *)
(* Option.  The interpreter state is [sequences, sequence_rows,            *)
(* prev_address, panic].                                                   *)
(***************************************************************************)
DwarfRow(address, file_index, line) ==
    [address |-> address, file_index |-> file_index, line |-> line]

DwarfSeq(low, high, rows) ==
    [low_address |-> low, high_address |-> high, rows |-> rows]

ParseInit ==
    [sequences |-> <<>>, sequence_rows |-> <<>>, prev_address |-> 0, panic |-> FALSE]

\* `address < prev_address` of the end_sequence branch: the end address lies
\* below the last accepted row.
EndBelowPrev(address, prev) == address < prev

\* A row that is never taken to be out of order.
RowNeverInvalid(address, prev) == FALSE

\* `else if address < prev_address`: the row is invalid and ignored.
RowIsInvalid(address, prev) == address < prev

\* One iteration of the `while let Ok(Some(..))` loop.
ParseRow(st, row, checks) ==
    LET address == row.address IN
    IF row.end_sequence
    THEN IF st.sequence_rows # <<>>
         THEN LET low  == st.sequence_rows[1].address
                  next == Add64(st.prev_address, 1)
                  below == EndBelowPrev(address, st.prev_address)
              IN IF below /\ next.ovf /\ checks
                 THEN [st EXCEPT !.panic = TRUE]
                 ELSE [st EXCEPT
                         !.sequences = Append(@,
                             DwarfSeq(low,
                                      IF below THEN next.val ELSE address,
                                      st.sequence_rows)),
                         !.sequence_rows = <<>>,
                         !.prev_address = 0]
         ELSE [st EXCEPT !.prev_address = 0]
    ELSE IF RowIsInvalid(address, st.prev_address)
    THEN st
    ELSE IF st.sequence_rows # <<>> /\ Last(st.sequence_rows).address = address
    THEN [st EXCEPT
            !.sequence_rows[Len(st.sequence_rows)] =
                DwarfRow(address, row.file_index, row.line),
            !.prev_address = address]
    ELSE [st EXCEPT
            !.sequence_rows = Append(@, DwarfRow(address, row.file_index, row.line)),
            !.prev_address = address]

\* After the loop: the sequence without an end_sequence row.
ParseTail(st, checks) ==
    IF st.sequence_rows # <<>>
    THEN LET next == Add64(st.prev_address, 1)
         IN IF next.ovf /\ checks
            THEN [st EXCEPT !.panic = TRUE]
            ELSE [st EXCEPT
                    !.sequences = Append(@,
                        DwarfSeq(st.sequence_rows[1].address, next.val,
                                 st.sequence_rows)),
                    !.sequence_rows = <<>>]
    ELSE st

\* The sorted vectors dmsort::sort_by_key(&mut sequences, |x| x.low_address)
\* can leave.
SortedSequences(seqs) ==
    {Permute(seqs, o) :
        o \in sort_by_key([i \in 1..Len(seqs) |-> seqs[i].low_address])}

RECURSIVE ParseRows(_, _, _)
ParseRows(st, program, checks) ==
    IF program = <<>> \/ st.panic
    THEN st
    ELSE ParseRows(ParseRow(st, program[1], checks), Tail(program), checks)

\* DwarfLineProgram::parse on a whole program: the set of the `sequences` it
\* can return (empty when it panics).
ParseProgram(program, checks) ==
    LET st == ParseRows(ParseInit, program, checks)
        fin == IF st.panic THEN st ELSE ParseTail(st, checks)
    IN IF fin.panic THEN {} ELSE SortedSequences(fin.sequences)

(***************************************************************************)
(* DwarfLineProgram::get_rows.  The result is [seq, from, len]: the rows   *)
(* &seq.rows[from..from + len] of sequences[seq], or seq = 0 for &[].      *)
(***************************************************************************)
RowKeys(rows) == [i \in 1..Len(rows) |-> rows[i].address]

\* The slice length searched in the whole sequence instead of rows[from..].
SliceLenWholeSeq(rows, from, end) ==
    binary_search_by_key(RowKeys(rows), end).idx

SliceLen(rows, from, end) ==
    binary_search_by_key(RowKeys(SubSeq(rows, from + 1, Len(rows))), end).idx

RECURSIVE GetRowsFrom(_, _, _)
GetRowsFrom(seqs, r, i) ==
    IF i > Len(seqs)
    THEN [seq |-> 0, from |-> 0, len |-> 0]
    ELSE LET seq == seqs[i] IN
         IF seq.high_address < r.begin \/ seq.low_address > r.end
         THEN GetRowsFrom(seqs, r, i + 1)
         ELSE LET found == binary_search_by_key(RowKeys(seq.rows), r.begin) IN
              IF ~found.ok /\ found.idx = 0
              THEN GetRowsFrom(seqs, r, i + 1)
              ELSE LET from == IF found.ok THEN found.idx ELSE found.idx - 1
                   IN [seq |-> i, from |-> from,
                       len |-> SliceLen(seq.rows, from, r.end)]

get_rows(seqs, r) == GetRowsFrom(seqs, r, 1)

\* The rows a get_rows result denotes.
RowsOf(seqs, res) ==
    IF res.seq = 0 THEN <<>>
    ELSE SubSeq(seqs[res.seq].rows, res.from + 1, res.from + res.len)

-----------------------------------------------------------------------------
(***************************************************************************)
(* DwarfLineProgram::get_filename: header.file(idx) in the file table of   *)
(* the line-program header.  The header of the modelled unit names two     *)
(* files and no compilation-unit file, so that the indices 1 and 2 are     *)
(* valid and every other index is an "invalid file reference".             *)
(***************************************************************************)
FileNames == <<[directory |-> "src", path_name |-> "a.c"],
               [directory |-> "inc", path_name |-> "b.h"]>>

get_filename(idx) ==
    IF idx \in 1..Len(FileNames)
    THEN [ok |-> TRUE, base_dir |-> FileNames[idx].directory,
          filename |-> FileNames[idx].path_name]
    ELSE [ok |-> FALSE, base_dir |-> "", filename |-> ""]

Line(addr, file_id, filename, base_dir, line) ==
    [addr |-> addr, original_file_id |-> file_id, filename |-> filename,
     base_dir |-> base_dir, line |-> line]

\* cmp::min(x, 0xffff) as u16
SaturateLine(x) == Min2(x, Max16)

\* Function::append_line_if_changed, on the `lines` vector.
append_line_if_changed(lines, line) ==
    IF lines # <<>>
       /\ Last(lines).original_file_id = line.original_file_id
       /\ Last(lines).line = line.line
    THEN lines
    ELSE Append(lines, line)

(***************************************************************************)
(* Unit::parse_location.  An entry carries the attributes the code reads:  *)
(* ranges (the items DW_AT_ranges yields, <<>> without the attribute),     *)
(* low_pc, high_pc (Addr), high_pc_rel (Udata), call_line, call_file, all  *)
(* Options.  The result is Ok(call_line, call_file, ranges) or Err.        *)
(***************************************************************************)
Range(b, e) == [begin |-> b, end |-> e]

Located(die, ranges) ==
    [ok |-> TRUE, err |-> "", call_line |-> die.call_line,
     call_file |-> die.call_file, ranges |-> ranges]

\* An addition that stops at the largest u64.
saturating_add(a, b) == Min2(a + b, Mod64 - 1)

\* low_pc.wrapping_add(high_pc_rel)
wrapping_add(a, b) == (a + b) % Mod64

parse_location(die) ==
    IF die.ranges # <<>>
    THEN Located(die, die.ranges)
    ELSE IF ~IsSome(die.low_pc) \/ Unwrap(die.low_pc) = 0
    THEN Located(die, <<>>)
    ELSE IF ~IsSome(die.high_pc) /\ ~IsSome(die.high_pc_rel)
    THEN Located(die, <<>>)
    ELSE LET low  == Unwrap(die.low_pc)
             high == IF IsSome(die.high_pc)
                     THEN Unwrap(die.high_pc)
                     ELSE wrapping_add(low, Unwrap(die.high_pc_rel))
         IN IF low = high
            THEN Located(die, <<>>)
            ELSE IF low > high
            THEN [ok |-> FALSE, err |-> "invalid function with inverted range",
                  call_line |-> None, call_file |-> None, ranges |-> <<>>]
            ELSE Located(die, <<Range(low, high)>>)

(***************************************************************************)
(* Unit::get_functions: the body of the loop for one function entry.       *)
(* A Function is [entry, depth, addr, len, name, inlines, lines]; `entry`  *)
(* is the position in the entry stream of the DIE it was built from (0 for *)
(* a Function of an earlier unit): it is not a field of the code's struct  *)
(* and nothing of the walker reads it.                                     *)
(***************************************************************************)
\* `... as u32`
TruncU32(x) == x % Mod32

\* (ranges[ranges.len() - 1].end - ranges[0].begin) as u32
FuncLen(ranges) ==
    LET d == Sub64(Last(ranges).end, ranges[1].begin)
    IN [val |-> TruncU32(d.val), ovf |-> d.ovf]

\* ranges[0].begin - info.vmaddr
FuncAddr(ranges, vm) == Sub64(ranges[1].begin, vm)

\* The inner loop `for row in rows`: acc is [status, err, lines].
RECURSIVE AppendRows(_, _, _, _)
AppendRows(acc, rows, vm, checks) ==
    IF rows = <<>> \/ acc.status # "ok"
    THEN acc
    ELSE LET row  == rows[1]
             file == get_filename(row.file_index)
             a    == Sub64(row.address, vm)
             new_line == Line(a.val, row.file_index, file.filename, file.base_dir,
                              SaturateLine(IF IsSome(row.line)
                                           THEN Unwrap(row.line) ELSE 0))
         IN IF ~file.ok
            THEN [acc EXCEPT !.status = "error", !.err = "invalid file reference"]
            ELSE IF a.ovf /\ checks
            THEN [acc EXCEPT !.status = "panic", !.err = "row.address - vmaddr"]
            ELSE AppendRows(
                    [acc EXCEPT !.lines = append_line_if_changed(@, new_line)],
                    Tail(rows), vm, checks)

\* The outer loop `for range in ranges`.
RECURSIVE AppendRanges(_, _, _, _, _)
AppendRanges(acc, ranges, seqs, vm, checks) ==
    IF ranges = <<>> \/ acc.status # "ok"
    THEN acc
    ELSE AppendRanges(
            AppendRows(acc, RowsOf(seqs, get_rows(seqs, ranges[1])), vm, checks),
            Tail(ranges), seqs, vm, checks)

\* `let mut func = Function {..}` and the loops that fill func.lines.
BuildFunction(idx, d, name, ranges, seqs, vm, checks) ==
    LET addr == FuncAddr(ranges, vm)
        len  == FuncLen(ranges)
        filled == AppendRanges([status |-> "ok", err |-> "", lines |-> <<>>],
                               ranges, seqs, vm, checks)
    IN IF addr.ovf /\ checks
       THEN [status |-> "panic", err |-> "ranges[0].begin - vmaddr", func |-> <<>>]
       ELSE IF len.ovf /\ checks
       THEN [status |-> "panic", err |-> "end - begin", func |-> <<>>]
       ELSE [status |-> filled.status, err |-> filled.err,
             func |-> [entry |-> idx, depth |-> d, addr |-> addr.val,
                       len |-> len.val,
                       name |-> IF IsSome(name) THEN Unwrap(name) ELSE "",
                       inlines |-> <<>>, lines |-> filled.lines]]

LineKeys(lines) == [i \in 1..Len(lines) |-> lines[i].addr]

InsertAt(s, idx, x) == SubSeq(s, 1, idx) \o <<x>> \o SubSeq(s, idx + 1, Len(s))

\* The call-site patch of node.lines: `match node.lines.binary_search_by_key`.
PatchCallSite(lines, addr, call_line, call_file) ==
    LET file  == get_filename(call_file)
        found == binary_search_by_key(LineKeys(lines), addr)
        patch == Line(addr, call_file, file.filename, file.base_dir,
                      SaturateLine(call_line))
    IN IF found.ok
       THEN [lines EXCEPT ![found.idx + 1] = patch]
       ELSE InsertAt(lines, found.idx, patch)

\* `while node.inlines.last().map_or(false, |n| n.depth < depth)`
DescendsInto(node, d) == node.inlines # <<>> /\ Last(node.inlines).depth < d

\* The search of the inner-most parent from `node`, the patch of its lines
\* and node.inlines.push(func).
RECURSIVE AttachInline(_, _, _, _)
AttachInline(node, func, call_line, call_file) ==
    IF DescendsInto(node, func.depth)
    THEN [node EXCEPT !.inlines =
            [node.inlines EXCEPT ![Len(node.inlines)] =
                AttachInline(Last(node.inlines), func, call_line, call_file)]]
    ELSE [node EXCEPT
            !.lines = IF IsSome(call_line) /\ IsSome(call_file)
                      THEN PatchCallSite(@, func.addr, Unwrap(call_line),
                                         Unwrap(call_file))
                      ELSE @,
            !.inlines = Append(@, func)]

(***************************************************************************)
(* The abbreviation cache of a DwarfInfo.  The .debug_abbrev section is,   *)
(* per offset, what lies there: "decls" where abbreviation declarations    *)
(* can be decoded, "malformed" where they cannot.  A decoded table is      *)
(* [at, decls]: the offset it was decoded at and what was decoded.  The    *)
(* abbrev_cache is an LruCache of CacheCapacity entries [key, value], held *)
(* here in the order of their last use, the least recently used first:     *)
(* get_mut moves the entry it finds to the end, insert appends and then    *)
(* drops the first entry when there are more than CacheCapacity.           *)
(***************************************************************************)
AbbrevOffsets == 0..(NumOffsets - 1)

\* The headers get_abbrev is called with: header.debug_abbrev_offset().
AbbrevHeaders == [debug_abbrev_offset : AbbrevOffsets]

\* header.abbreviations(&self.sections.debug_abbrev)
abbreviations(section, header) ==
    LET offset == header.debug_abbrev_offset IN
    IF section[offset] = "malformed"
    THEN [ok |-> FALSE, table |-> None]
    ELSE [ok |-> TRUE, table |-> Some([at |-> offset, decls |-> section[offset]])]

\* The position of a key in the cache, 0 when it is not there.
IndexOf(cache, key) ==
    IF \E i \in DOMAIN cache : cache[i].key = key
    THEN CHOOSE i \in DOMAIN cache : cache[i].key = key
    ELSE 0

\* A cache in which a use does not count.
NoRefresh(cache, i) == cache

\* The entry at position i becomes the most recently used.
Refresh(cache, i) ==
    SubSeq(cache, 1, i - 1) \o SubSeq(cache, i + 1, Len(cache)) \o <<cache[i]>>

\* cache.get_mut(&key): the value found (an Option) and the cache after it.
get_mut(cache, key) ==
    LET i == IndexOf(cache, key) IN
    IF i = 0
    THEN [value |-> None, cache |-> cache]
    ELSE [value |-> Some(cache[i].value), cache |-> Refresh(cache, i)]

\* cache.insert(key, value)
insert(cache, key, value) ==
    LET i    == IndexOf(cache, key)
        rest == IF i = 0 THEN cache
                ELSE SubSeq(cache, 1, i - 1) \o SubSeq(cache, i + 1, Len(cache))
        put  == Append(rest, [key |-> key, value |-> value])
    IN IF Len(put) > CacheCapacity THEN Tail(put) ELSE put

\* DwarfInfo::get_abbrev: Ok(table) or Err, and the cache after the call.
get_abbrev(cache, section, header) ==
    LET offset == header.debug_abbrev_offset
        hit    == get_mut(cache, offset)
    IN IF IsSome(hit.value)
       THEN [ok |-> TRUE, table |-> hit.value, cache |-> hit.cache]
       ELSE LET abbrev == abbreviations(section, header) IN
            IF ~abbrev.ok
            THEN [ok |-> FALSE, table |-> None, cache |-> hit.cache]
            ELSE LET again == get_mut(insert(hit.cache, offset, Unwrap(abbrev.table)),
                                      offset)
                 IN [ok |-> TRUE, table |-> again.value, cache |-> again.cache]

\* The header of unit `index` as get_abbrev reads it.  Units share the
\* abbreviation tables when there are more units than tables.
UnitAbbrevHeader(index) == [debug_abbrev_offset |-> index % NumOffsets]

\* The .debug_abbrev sections that can be malformed at the given offsets only.
AbbrevSections(offsets) ==
    {[o \in AbbrevOffsets |-> IF o \in bad THEN "malformed" ELSE "decls"] :
        bad \in SUBSET offsets}

\* `info.get_abbrev(header)` inside an operation: r is what get_abbrev gives
\* on the present cache; the cache becomes r.cache and the call is recorded.
AbbrevCall(header, r) ==
    /\ abbrev_cache' = r.cache
    /\ abbrev_result' = Some([ok |-> r.ok, table |-> r.table])
    /\ abbrev_calls' = Append(abbrev_calls,
                              [offset |-> header.debug_abbrev_offset, ok |-> r.ok])

\* The cache at the start of an operation on a unit whose abbreviations an
\* earlier get_abbrev(header) has fetched: that call returned Ok and left
\* its table in the cache; the operation itself has made no call yet.
AbbrevFetched(section, header) ==
    LET r == get_abbrev(<<>>, section, header) IN
    /\ r.ok
    /\ abbrev_cache = r.cache
    /\ abbrev_result = None
    /\ abbrev_calls = <<>>

(***************************************************************************)
(* The units of an object and the references between their entries.       *)
(***************************************************************************)
UnitSize == HeaderSize + 1

\* A CompilationUnitHeader: its .debug_info offset and its length, header
\* included.
UnitHeader(offset, size) == [offset |-> offset, size |-> size]

\* The units of the object.
Units == [u \in 1..NumUnits |-> UnitHeader((u - 1) * UnitSize, UnitSize)]

\* A unit for which every offset is taken as valid.
AnyOffsetValid(header, off) == TRUE

\* header.is_valid_offset(unit_offset) of gimli, which to_unit_offset and
\* entries_at_offset apply: past the header, inside the entries.
IsValidOffset(header, off) == off >= HeaderSize /\ off < header.size

\* DwarfInfo::find_unit_offset: Ok(index, unit offset) or Err.
find_unit_offset(units, g) ==
    LET found == binary_search_by_key([u \in 1..Len(units) |-> units[u].offset], g) IN
    IF ~found.ok /\ found.idx = 0
    THEN [ok |-> FALSE, err |-> "could not find compilation unit at address",
          index |-> 0, offset |-> 0]
    ELSE LET idx == IF found.ok THEN found.idx ELSE found.idx - 1
             off == g - units[idx + 1].offset
         IN IF IsValidOffset(units[idx + 1], off)
            THEN [ok |-> TRUE, err |-> "", index |-> idx, offset |-> off]
            ELSE [ok |-> FALSE, err |-> "compilation unit out of range",
                  index |-> 0, offset |-> 0]

\* The match on attr_value in Unit::resolve_reference: the (index, offset)
\* to read, [kind |-> "entry", at |-> <<index, offset>>], or Ok(None), or the
\* Err of find_unit_offset.
ReferenceTarget(units, index, value) ==
    IF value.kind = "UnitRef"
    THEN [kind |-> "entry", at |-> <<index, value.offset>>, err |-> ""]
    ELSE IF value.kind = "DebugInfoRef"
    THEN LET u == find_unit_offset(units, value.offset) IN
         IF u.ok
         THEN [kind |-> "entry", at |-> <<u.index, u.offset>>, err |-> ""]
         ELSE [kind |-> "err", at |-> <<0, 0>>, err |-> u.err]
    ELSE [kind |-> "none", at |-> <<0, 0>>, err |-> ""]

\* Unit::resolve_reference from `let header = info.get_unit_header(index)?`
\* to the call of the callback, for the (index, offset) the match gave:
\* r is what info.get_abbrev(header) returned.
EntriesAtOffset(units, target, header, r) ==
    IF ~r.ok
    THEN [kind |-> "err", at |-> <<0, 0>>, err |-> "abbreviations",
          calls |-> <<[header |-> header, r |-> r]>>, cache |-> r.cache]
    ELSE IF ~IsValidOffset(units[target.at[1] + 1], target.at[2])
    THEN [kind |-> "err", at |-> <<0, 0>>, err |-> "OffsetOutOfBounds",
          calls |-> <<[header |-> header, r |-> r]>>, cache |-> r.cache]
    ELSE [kind |-> "entry", at |-> target.at, err |-> "",
          calls |-> <<[header |-> header, r |-> r]>>, cache |-> r.cache]

\* Unit::resolve_reference up to the call of the callback: the entry the
\* callback is to be called on, [kind |-> "entry", at |-> <<index, offset>>],
\* or Ok(None), or Err; in `calls` the get_abbrev call it made, if any, as
\* [header, r] with r what get_abbrev gave, and the cache after it.
resolve_reference(units, index, value, cache, section) ==
    LET target == ReferenceTarget(units, index, value) IN
    IF target.kind # "entry"
    THEN [kind |-> target.kind, at |-> target.at, err |-> target.err,
          calls |-> <<>>, cache |-> cache]
    ELSE EntriesAtOffset(units, target, UnitAbbrevHeader(target.at[1]),
                         get_abbrev(cache, section, UnitAbbrevHeader(target.at[1])))

\* The attribute walk of resolve_function_name on one entry: the name it
\* returns, [kind |-> "name", name |-> Option], or the reference it follows.
NameOrReference(e) ==
    IF IsSome(e.linkage_name)
    THEN [kind |-> "name", name |-> Unwrap(e.linkage_name)]
    ELSE IF IsSome(e.name)
    THEN [kind |-> "name", name |-> Unwrap(e.name)]
    ELSE IF IsSome(e.reference)
    THEN [kind |-> "reference", value |-> Unwrap(e.reference)]
    ELSE [kind |-> "name", name |-> None]

NameEntry(null, linkage_name, name, reference) ==
    [null |-> null, linkage_name |-> linkage_name, name |-> name,
     reference |-> reference]

\* The unit get_functions is called on, the only unit of its object: the
\* header, then room for MaxDies entries of one byte each.
WalkUnit == 0
WalkUnits == <<UnitHeader(0, HeaderSize + MaxDies)>>

\* The unit offset of the idx-th entry next_dfs returns.
EntryOffset(idx) == HeaderSize + idx - 1

\* The attributes resolve_function_name looks at, of an entry of the walk:
\* DW_AT_name as a string, DW_AT_specification or DW_AT_abstract_origin.
NameAttributes(die) ==
    NameEntry(FALSE, None, IF IsSome(die.name) THEN Some(die.name) ELSE None,
              die.reference)

\* Unit::resolve_function_name on the entry at unit offset `at` of the unit
\* walked, of which next_dfs has returned the entries `read`: Ok(name) or
\* Err, and the get_abbrev calls made on the way.  `seen` are the entries
\* whose resolution is under way: a reference back to one of them repeats
\* that resolution inside itself, and the recursion ends when the stack is
\* exhausted.
RECURSIVE resolve_function_name(_, _, _, _, _)

\* `if let Some(attr) = reference_target`: target is what resolve_reference
\* gave up to its callback, which is resolve_function_name on the entry
\* referred to.
FollowReference(read, seen, section, target) ==
    IF target.kind = "err"
    THEN [status |-> "error", err |-> target.err, name |-> None,
          calls |-> target.calls]
    ELSE IF target.kind = "none"
    THEN [status |-> "ok", err |-> "", name |-> None, calls |-> target.calls]
    ELSE IF target.at[2] \in seen
    THEN [status |-> "abort", err |-> "stack overflow", name |-> None,
          calls |-> target.calls]
    ELSE LET inner == resolve_function_name(read, target.at[2],
                                            seen \cup {target.at[2]},
                                            target.cache, section)
         IN [inner EXCEPT !.calls = target.calls \o @]

resolve_function_name(read, at, seen, cache, section) ==
    LET found == NameOrReference(NameAttributes(read[at - HeaderSize + 1])) IN
    IF found.kind = "name"
    THEN [status |-> "ok", err |-> "", name |-> found.name, calls |-> <<>>]
    ELSE FollowReference(read, seen, section,
                         resolve_reference(WalkUnits, WalkUnit, found.value, cache,
                                           section))

\* The get_abbrev calls of a name resolution, applied to the cache.
AbbrevCalls(calls) ==
    IF calls = <<>>
    THEN UNCHANGED <<abbrev_cache, abbrev_calls, abbrev_result>>
    ELSE /\ abbrev_cache' = Last(calls).r.cache
         /\ abbrev_result' = Some([ok |-> Last(calls).r.ok,
                                   table |-> Last(calls).r.table])
         /\ abbrev_calls' = abbrev_calls \o
                [i \in 1..Len(calls) |->
                    [offset |-> calls[i].header.debug_abbrev_offset,
                     ok |-> calls[i].r.ok]]

\* A match on the tag that takes DW_TAG_subprogram only.
IsSubprogramTag(tag) == tag = "subprogram"

\* `DW_TAG_subprogram | DW_TAG_inlined_subroutine => {}`
IsFunctionTag(tag) == tag \in {"subprogram", "inlined_subroutine"}

\* A walker that skips no subtree.
NeverSkipped(skipped, d) == FALSE

\* `Some(skipped) if depth > skipped => continue`
InSkippedSubtree(skipped, d) == IsSome(skipped) /\ d > Unwrap(skipped)

Continue(skipped, fs) ==
    [pc |-> "walk", err |-> "", skipped_depth |-> skipped, funcs |-> fs,
     calls |-> <<>>]
Fail(kind, msg, fs) ==
    [pc |-> kind, err |-> msg, skipped_depth |-> None, funcs |-> fs,
     calls |-> <<>>]

\* The iteration from `let mut func = Function {..}` on, for an entry with
\* ranges: `named` is what resolve_function_name returned for it.
NamedFunction(die, idx, d, fs, seqs, vm, checks, loc, named) ==
    IF named.status # "ok"
    THEN [Fail(named.status, named.err, fs) EXCEPT !.calls = named.calls]
    ELSE LET built == BuildFunction(idx, d, named.name, loc.ranges, seqs, vm, checks)
             outcome ==
                 IF built.status # "ok"
                 THEN Fail(built.status, built.err, fs)
                 ELSE IF die.tag = "subprogram"
                 THEN Continue(None, Append(fs, built.func))
                 ELSE IF fs = <<>>
                 THEN Fail("error", "could not find inline parent function", fs)
                 ELSE IF IsSome(loc.call_line) /\ IsSome(loc.call_file)
                         /\ ~get_filename(Unwrap(loc.call_file)).ok
                 THEN Fail("error", "invalid file reference", fs)
                 ELSE Continue(None,
                        [fs EXCEPT ![Len(fs)] =
                            AttachInline(Last(fs), built.func,
                                         loc.call_line, loc.call_file)])
         IN [outcome EXCEPT !.calls = named.calls]

\* One iteration of `while let Some((movement, entry)) = entries.next_dfs()?`
\* for the entry `die`, the idx-th of the unit and the last of `read`, at
\* depth d.  The caller passes no symbol table (symbols is None), so the
\* name is the one resolve_function_name finds.
WalkEntry(die, idx, d, skipped, fs, seqs, vm, checks, read, cache, section) ==
    IF InSkippedSubtree(skipped, d)
    THEN Continue(skipped, fs)
    ELSE IF ~IsFunctionTag(die.tag)
    THEN Continue(None, fs)
    ELSE LET loc == parse_location(die) IN
         IF ~loc.ok
         THEN Fail("error", loc.err, fs)
         ELSE IF loc.ranges = <<>>
         THEN Continue(Some(d), fs)
         ELSE NamedFunction(die, idx, d, fs, seqs, vm, checks, loc,
                            resolve_function_name(read, EntryOffset(idx),
                                                  {EntryOffset(idx)}, cache,
                                                  section))

\* The sorted vectors dmsort::sort_by_key(funcs, |x| x.addr) can leave.
SortedFuncs(fs) ==
    {Permute(fs, o) : o \in sort_by_key([i \in 1..Len(fs) |-> fs[i].addr])}

-----------------------------------------------------------------------------
(***************************************************************************)
(* SpecLine: the line-program interpreter fed one program row at a time,   *)
(* then get_rows queried on the parsed program.                            *)
(***************************************************************************)
\* The rows a program can yield: addresses 0..MaxAddr and the largest u64.
\* The n-th row of the program names file n, so that a stored row shows
\* which program row it was last written from.
RowAddrs == (0..MaxAddr) \cup {Mod64 - 1}
ProgramRows(n) ==
    [address : RowAddrs, file_index : {n}, line : {Some(1)},
     end_sequence : BOOLEAN]

\* The builds that can be running: both while no overflow has happened and
\* the step at hand overflows, else the one known (the wrapping build stands
\* for both while none has).
Builds(known, overflows) ==
    IF known = "unknown" /\ overflows THEN {TRUE, FALSE}
    ELSE {known = "on"}

KnownBuild(known, overflows, checks) ==
    IF overflows THEN (IF checks THEN "on" ELSE "off") ELSE known

\* The ranges get_rows is asked for.
QueryRanges == [begin : 0..(MaxAddr + 1), end : 0..(MaxAddr + 1)]

NoRows == [seq |-> 0, from |-> 0, len |-> 0]

WalkIdle ==
    /\ pc = "idle" /\ err = "" /\ vmaddr = 0 /\ dies = <<>> /\ depth = 0
    /\ skipped_depth = None /\ funcs = <<>>

NameIdle ==
    /\ name_pc = "idle" /\ self_index = 0 /\ entries = <<>> /\ cur = <<0, 0>>
    /\ frames = 0 /\ name_out = None /\ name_err = ""

NoObject == [sections |-> {}, wellformed |-> TRUE]
NoUnit == [status |-> "idle", err |-> "", unit |-> None]

OpenIdle ==
    /\ object = NoObject /\ info = None /\ unit_top = None /\ unit = NoUnit
    /\ location_entry = None /\ location = None
    /\ find_units = <<>> /\ find_offset = 0 /\ find_result = None

LineIdle ==
    /\ sequence_rows = <<>> /\ prev_address = 0 /\ nrows = 0
    /\ program_row = None /\ decode_failed = FALSE
    /\ rng = None /\ rows_out = NoRows

CacheIdle ==
    /\ debug_abbrev = <<>> /\ abbrev_cache = <<>> /\ abbrev_calls = <<>>
    /\ abbrev_result = None

InitLine ==
    /\ overflow_checks = "unknown"
    /\ CacheIdle
    /\ lp_pc = "rows"
    /\ sequences = <<>>
    /\ LineIdle
    /\ WalkIdle
    /\ NameIdle
    /\ OpenIdle

ParserState ==
    [sequences |-> sequences, sequence_rows |-> sequence_rows,
     prev_address |-> prev_address, panic |-> FALSE]

\* program_rows.next_row() returns Ok(Some(row)).
NextRow ==
    /\ lp_pc = "rows"
    /\ nrows < MaxRows
    /\ \E row \in ProgramRows(nrows + 1) :
         LET overflows == ParseRow(ParserState, row, TRUE).panic IN
         \E checks \in Builds(overflow_checks, overflows) :
            LET st == ParseRow(ParserState, row, checks) IN
            /\ sequences' = st.sequences
            /\ sequence_rows' = st.sequence_rows
            /\ prev_address' = st.prev_address
            /\ lp_pc' = IF st.panic THEN "panic" ELSE "rows"
            /\ overflow_checks' = KnownBuild(overflow_checks, overflows, checks)
            /\ program_row' = Some(row)
    /\ nrows' = nrows + 1
    /\ UNCHANGED <<cacheVars, decode_failed, rng, rows_out, walkVars, nameVars,
                   openVars, locationVars>>

\* program_rows.next_row() returns Ok(None) or Err(_): the loop ends, the
\* open sequence is closed and the sequences are sorted.
EndOfRows ==
    /\ lp_pc = "rows"
    /\ decode_failed' \in BOOLEAN
    /\ LET overflows == ParseTail(ParserState, TRUE).panic IN
       \E checks \in Builds(overflow_checks, overflows) :
         LET st == ParseTail(ParserState, checks) IN
         /\ overflow_checks' = KnownBuild(overflow_checks, overflows, checks)
         /\ IF st.panic
            THEN /\ lp_pc' = "panic"
                 /\ UNCHANGED <<sequences, sequence_rows>>
            ELSE /\ lp_pc' = "parsed"
                 /\ sequences' \in SortedSequences(st.sequences)
                 /\ sequence_rows' = st.sequence_rows
    /\ UNCHANGED <<cacheVars, prev_address, nrows, program_row, rng, rows_out, walkVars,
                   nameVars, openVars, locationVars>>

\* line_program.get_rows(range)
GetRows ==
    /\ lp_pc = "parsed"
    /\ \E r \in QueryRanges :
         /\ rng' = Some(r)
         /\ rows_out' = get_rows(sequences, r)
    /\ UNCHANGED <<cacheVars, overflow_checks, lp_pc, sequences, sequence_rows,
                   prev_address, nrows, program_row, decode_failed, walkVars,
                   nameVars, openVars, locationVars>>

NextLine == NextRow \/ EndOfRows \/ GetRows

SpecLine == InitLine /\ [][NextLine]_vars

-----------------------------------------------------------------------------
(***************************************************************************)
(* Spec: Unit::get_functions on one unit.  The entries of the unit are     *)
(* read one at a time from next_dfs; each is one of the shapes below, at   *)
(* any depth a depth-first walk can reach.                                 *)
(***************************************************************************)
\* The line program of the unit: one sequence, rows at 1, 3, 4, 5, end at 7.
\* The rows at 3 and 4 name the same file and line.
WalkProgram ==
    <<[address |-> 1, file_index |-> 1, line |-> None, end_sequence |-> FALSE],
      [address |-> 3, file_index |-> 1, line |-> Some(2), end_sequence |-> FALSE],
      [address |-> 4, file_index |-> 1, line |-> Some(2), end_sequence |-> FALSE],
      [address |-> 5, file_index |-> 1, line |-> Some(1), end_sequence |-> FALSE],
      [address |-> 7, file_index |-> 1, line |-> Some(1), end_sequence |-> TRUE]>>

Entry(tag, ranges, low_pc, high_pc, high_pc_rel, call_line, call_file, name, reference) ==
    [tag |-> tag, ranges |-> ranges, low_pc |-> low_pc, high_pc |-> high_pc,
     high_pc_rel |-> high_pc_rel, call_line |-> call_line,
     call_file |-> call_file, name |-> name, reference |-> reference]

CompileUnitEntry ==
    Entry("compile_unit", <<>>, None, None, None, None, None, None, None)

EntryShapes ==
    { \* a lexical block
      Entry("lexical_block", <<>>, Some(3), Some(6), None, None, None, None, None),
      \* subprograms: [3, 6) by offset, an eliminated stub, [2, 12) by address
      \* (a span of 10 >= Mod32), two ranges in descending order, an
      \* inverted range
      Entry("subprogram", <<>>, Some(3), None, Some(3), None, None, Some("a"), None),
      Entry("subprogram", <<>>, Some(0), Some(0), None, None, None, Some("stub"), None),
      Entry("subprogram", <<>>, Some(2), Some(12), None, None, None, Some("b"), None),
      Entry("subprogram", <<Range(4, 6), Range(2, 3)>>, None, None, None,
            None, None, Some("m"), None),
      Entry("subprogram", <<>>, Some(6), Some(3), None, None, None, Some("inv"), None),
      \* inlined subroutines: [5, 6) called from file 1 line 2, [4, 6) called
      \* from file 2 line 4 > Max16, [4, 5) without a call file and named by
      \* the second entry of the unit (DW_AT_abstract_origin), one without
      \* low_pc, one whose call file is not in the file table
      Entry("inlined_subroutine", <<>>, Some(5), Some(6), None, Some(2), Some(1),
            Some("i"), None),
      Entry("inlined_subroutine", <<>>, Some(4), None, Some(2), Some(4), Some(2),
            Some("j"), None),
      Entry("inlined_subroutine", <<>>, Some(4), Some(5), None, Some(1), None,
            None, Some([kind |-> "UnitRef", offset |-> EntryOffset(2)])),
      Entry("inlined_subroutine", <<>>, None, None, None, Some(1), Some(1),
            Some("gone"), None),
      Entry("inlined_subroutine", <<>>, Some(4), Some(6), None, Some(1), Some(3),
            Some("k"), None),
      \* subprograms [3, 6) without a name of their own, whose
      \* DW_AT_specification leads to no entry: to an offset inside the
      \* unit's header, to an offset past the end of .debug_info
      Entry("subprogram", <<>>, Some(3), None, Some(3), None, None, None,
            Some([kind |-> "UnitRef", offset |-> HeaderSize - 1])),
      Entry("subprogram", <<>>, Some(3), None, Some(3), None, None, None,
            Some([kind |-> "DebugInfoRef", offset |-> HeaderSize + MaxDies])) }

WithDelta(e, delta) ==
    [delta |-> delta, tag |-> e.tag, ranges |-> e.ranges, low_pc |-> e.low_pc,
     high_pc |-> e.high_pc, high_pc_rel |-> e.high_pc_rel,
     call_line |-> e.call_line, call_file |-> e.call_file, name |-> e.name,
     reference |-> e.reference]

\* What next_dfs can return after n entries at depth d: first the unit's
\* compile_unit entry, then an entry at any depth from 1 to d + 1.
NextEntries(n, d) ==
    IF n = 0
    THEN {WithDelta(CompileUnitEntry, 0)}
    ELSE {WithDelta(e, nd - d) : e \in EntryShapes, nd \in 1..(d + 1)}

\* A function of an earlier unit, already in the caller's list.
EarlierFunction ==
    [entry |-> 0, depth |-> 1, addr |-> 2, len |-> 1, name |-> "earlier",
     inlines |-> <<>>, lines |-> <<>>]

\* The call of get_functions: nothing has been read yet.  The abbreviations
\* of the unit are cached (Unit::parse fetched them) or have left the cache
\* since, and the section they are decoded from may be unreadable then.
StartOfFunctions ==
    /\ overflow_checks = "unknown"
    /\ lp_pc = "idle" /\ sequences = <<>> /\ LineIdle
    /\ pc = "start" /\ err = "" /\ dies = <<>> /\ depth = 0
    /\ skipped_depth = None
    /\ NameIdle
    /\ OpenIdle
    /\ \/ /\ debug_abbrev \in
                AbbrevSections({UnitAbbrevHeader(WalkUnit).debug_abbrev_offset})
          /\ abbrev_cache = <<>> /\ abbrev_calls = <<>> /\ abbrev_result = None
       \/ /\ debug_abbrev \in AbbrevSections({})
          /\ AbbrevFetched(debug_abbrev, UnitAbbrevHeader(WalkUnit))

Init ==
    /\ vmaddr \in {0, 2}
    /\ funcs \in {<<>>, <<EarlierFunction>>}
    /\ StartOfFunctions

\* get_functions up to its loop: info.get_abbrev(header)?, then
\* DwarfLineProgram::parse on a line program whose rows are one of
\* `programs`; `failed` tells whether next_row ended them with Err(_).
BeginWith(programs, failed) ==
    /\ pc = "start"
    /\ LET header == UnitAbbrevHeader(WalkUnit)
           r      == get_abbrev(abbrev_cache, debug_abbrev, header)
       IN /\ AbbrevCall(header, r)
          /\ IF r.ok
             THEN /\ pc' = "walk" /\ err' = ""
                  /\ lp_pc' = "parsed"
                  /\ decode_failed' = failed
                  /\ \E program \in programs :
                       sequences' \in ParseProgram(program, FALSE)
             ELSE /\ pc' = "error" /\ err' = "abbreviations"
                  /\ UNCHANGED <<lp_pc, decode_failed, sequences>>
    /\ UNCHANGED <<overflow_checks, debug_abbrev, vmaddr, dies, depth, skipped_depth,
                   funcs, sequence_rows, prev_address, nrows, program_row, rng,
                   rows_out, nameVars, openVars, locationVars>>

BeginFunctions == BeginWith({WalkProgram}, FALSE)

\* entries.next_dfs() returns Some((movement, entry)).
VisitEntry ==
    /\ pc = "walk"
    /\ Len(dies) < MaxDies
    /\ \E die \in NextEntries(Len(dies), depth) :
         LET d == depth + die.delta
             read == Append(dies, die)
             overflows == WalkEntry(die, Len(read), d, skipped_depth, funcs,
                                    sequences, vmaddr, TRUE, read, abbrev_cache,
                                    debug_abbrev).pc = "panic"
         IN \E checks \in Builds(overflow_checks, overflows) :
              \E r \in {WalkEntry(die, Len(read), d, skipped_depth, funcs,
                                  sequences, vmaddr, checks, read, abbrev_cache,
                                  debug_abbrev)} :
                 /\ dies' = read
                 /\ depth' = d
                 /\ pc' = r.pc
                 /\ err' = r.err
                 /\ skipped_depth' = r.skipped_depth
                 /\ funcs' = r.funcs
                 /\ AbbrevCalls(r.calls)
                 /\ overflow_checks' = KnownBuild(overflow_checks, overflows, checks)
    /\ UNCHANGED <<debug_abbrev, vmaddr, lineVars, nameVars, openVars, locationVars>>

\* entries.next_dfs() returns None: the functions are sorted, Ok(()).
EndOfEntries ==
    /\ pc = "walk"
    /\ Len(dies) >= 1
    /\ funcs' \in SortedFuncs(funcs)
    /\ pc' = "ok"
    /\ UNCHANGED <<cacheVars, overflow_checks, err, vmaddr, dies, depth, skipped_depth,
                   lineVars, nameVars, openVars, locationVars>>

Next == BeginFunctions \/ VisitEntry \/ EndOfEntries

Spec == Init /\ [][Next]_vars

(***************************************************************************)
(* SpecBadLine: get_functions on a unit whose line program cannot be       *)
(* decoded to its end: next_row returns Err(_) after some of the rows of   *)
(* WalkProgram, which ends the loop of DwarfLineProgram::parse as          *)
(* Ok(None) does.                                                          *)
(***************************************************************************)
DecodedBeforeFailure ==
    {SubSeq(WalkProgram, 1, k) : k \in 1..(Len(WalkProgram) - 1)}

InitBadLine ==
    /\ vmaddr = 0
    /\ funcs = <<>>
    /\ StartOfFunctions

BeginBadLine == BeginWith(DecodedBeforeFailure, TRUE)

NextBadLine == BeginBadLine \/ VisitEntry \/ EndOfEntries

SpecBadLine == InitBadLine /\ [][NextBadLine]_vars

-----------------------------------------------------------------------------
(***************************************************************************)
(* SpecName: Unit::resolve_function_name on an entry of unit self_index.   *)
(* The object has NumUnits units of one entry each: unit u lies at         *)
(* .debug_info offset u * UnitSize, its header takes HeaderSize, and its   *)
(* entry lies at the unit offset HeaderSize.  An entry is read when the    *)
(* resolver first reaches it.  It is [null, linkage_name, name,            *)
(* reference]: null for a null entry, linkage_name and name an Option of   *)
(* what string_value gives (itself an Option), reference an Option of the  *)
(* attribute value [kind, offset].                                         *)
(***************************************************************************)
AttributeValues ==
    [kind : {"UnitRef"}, offset : 0..UnitSize]
    \cup [kind : {"DebugInfoRef"}, offset : 0..(NumUnits * UnitSize)]
    \cup [kind : {"Other"}, offset : {0}]

NameEntries ==
    {NameEntry(FALSE, l, n, r) :
        l \in {None, Some(Some("_Z3fooi"))},
        n \in {None, Some(Some("foo")), Some(None)},
        r \in {None} \cup {Some(v) : v \in AttributeValues}}
    \cup {NameEntry(TRUE, None, None, None)}

\* More nested calls than the object has entries: an entry is being resolved
\* inside its own resolution.  The model follows the recursion this far.
MaxFrames == NumUnits + 1

\* get_functions calls resolve_function_name on an entry of its unit: the
\* abbreviations of that unit are in the cache, those of the other units
\* may be unreadable.
InitName ==
    /\ overflow_checks = "unknown"
    /\ lp_pc = "idle" /\ sequences = <<>> /\ LineIdle
    /\ WalkIdle
    /\ OpenIdle
    /\ name_pc = "resolve"
    /\ self_index \in 0..(NumUnits - 1)
    /\ debug_abbrev \in
          AbbrevSections({UnitAbbrevHeader(u).debug_abbrev_offset :
                             u \in (0..(NumUnits - 1)) \ {self_index}})
    /\ AbbrevFetched(debug_abbrev, UnitAbbrevHeader(self_index))
    /\ cur = <<self_index, HeaderSize>>
    /\ entries = [u \in 1..NumUnits |-> None]
    /\ frames = 1
    /\ name_out = None
    /\ name_err = ""

\* What can be read at `cur`: what was read there before, else any entry
\* (the entry get_functions passes in is a function entry, not a null one).
EntriesAt(at) ==
    IF IsSome(entries[at[1] + 1])
    THEN {Unwrap(entries[at[1] + 1])}
    ELSE IF frames = 1 THEN {e \in NameEntries : ~e.null} ELSE NameEntries

\* One call of resolve_function_name: on the entry at `cur` it returns a
\* name, or fails, or calls itself on the entry its reference leads to.
ResolveEntry ==
    /\ name_pc = "resolve"
    /\ frames <= MaxFrames
    /\ \E e \in EntriesAt(cur) :
         /\ entries' = [entries EXCEPT ![cur[1] + 1] = Some(e)]
         /\ IF e.null
            THEN /\ name_pc' = "ok" /\ name_out' = None
                 /\ UNCHANGED <<cur, frames, name_err, abbrev_cache, abbrev_calls,
                                abbrev_result>>
            ELSE LET found == NameOrReference(e) IN
                 IF found.kind = "name"
                 THEN /\ name_pc' = "ok" /\ name_out' = found.name
                      /\ UNCHANGED <<cur, frames, name_err, abbrev_cache,
                                     abbrev_calls, abbrev_result>>
                 ELSE \E target \in {resolve_reference(Units, self_index,
                                                         found.value, abbrev_cache,
                                                         debug_abbrev)} :
                         /\ AbbrevCalls(target.calls)
                         /\ IF target.kind = "err"
                            THEN /\ name_pc' = "error" /\ name_err' = target.err
                                 /\ UNCHANGED <<cur, frames, name_out>>
                            ELSE IF target.kind = "none"
                            THEN /\ name_pc' = "ok" /\ name_out' = None
                                 /\ UNCHANGED <<cur, frames, name_err>>
                            ELSE /\ cur' = target.at
                                 /\ frames' = frames + 1
                                 /\ UNCHANGED <<name_pc, name_out, name_err>>
    /\ UNCHANGED <<overflow_checks, debug_abbrev, self_index, lineVars, walkVars,
                   openVars, locationVars>>

NextName == ResolveEntry

SpecName == InitName /\ [][NextName]_vars

-----------------------------------------------------------------------------
(***************************************************************************)
(* SpecOpen: DwarfInfo::from_object on an object, then Unit::parse on a    *)
(* unit of it.  An object is [sections, wellformed]: the DWARF sections it *)
(* has, and whether gimli can read their headers.  A buffer is "bytes"     *)
(* (the section's contents) or "empty" (the default Cow).                  *)
(***************************************************************************)
\* The load_section calls of DwarfBuffers::from_object, in their order.
LoadOrder == <<"info", "abbrev", "line", "str", "ranges", "rnglists">>

\* A loader for which every section is required.
AllRequired(section) == TRUE

\* The `required` argument of the load_section call for `section`.
IsRequired(section) == section \in {"info", "abbrev", "line"}

\* load_section(obj, section, required)
load_section(obj, section, required) ==
    IF section \in obj.sections
    THEN [ok |-> TRUE, bytes |-> "bytes"]
    ELSE IF required
    THEN [ok |-> FALSE, bytes |-> "empty"]
    ELSE [ok |-> TRUE, bytes |-> "empty"]

\* DwarfBuffers::from_object: the first section whose load fails, if any.
MissingSections(obj) ==
    {k \in DOMAIN LoadOrder :
        ~load_section(obj, LoadOrder[k], IsRequired(LoadOrder[k])).ok}

Opened(status, section, buffers) ==
    [status |-> status, section |-> section, buffers |-> buffers]

\* DwarfInfo::from_object
from_object(obj) ==
    IF MissingSections(obj) # {}
    THEN Opened("MissingDebugSection", LoadOrder[SetMin(MissingSections(obj))],
                [k \in {} |-> "empty"])
    ELSE LET buffers ==
                 [k \in {LoadOrder[i] : i \in DOMAIN LoadOrder} |->
                     load_section(obj, k, IsRequired(k)).bytes]
         IN IF obj.wellformed
            THEN Opened("ok", "", buffers)
            ELSE Opened("BadDebugFile", "", [k \in {} |-> "empty"])

(***************************************************************************)
(* Unit::parse.  What entries.next_dfs() gives is [dfs_ok, entry]: dfs_ok  *)
(* is FALSE when it returns Err, and entry is an Option (next_dfs can      *)
(* return None) of the top DIE [tag, attrs_ok, low_pc, entry_pc,           *)
(* stmt_list]; attrs_ok is FALSE when a read of its attributes returns     *)
(* Err, low_pc and entry_pc are Options of an Addr, stmt_list is an Option *)
(* of the attribute value [form, offset].  Every Err of gimli is the       *)
(* BadDebugFile error; err names the call it came from.                    *)
(***************************************************************************)
\* A unit parser that takes any tag for a compile unit.
AnyTag(tag) == TRUE

\* `entry.tag() != gimli::DW_TAG_compile_unit` negated
IsCompileUnit(tag) == tag = "compile_unit"

ParsedUnit(status, e, u) == [status |-> status, err |-> e, unit |-> u]

\* Unit::parse(info, index): what it returns, and in `abbrev` an Option of
\* what info.get_abbrev(header) gave, when it was called.
UnitParse(index, top, cache, section) ==
    IF index >= NumUnits
    THEN [parsed |-> ParsedUnit("error", "compilation unit does not exist", None),
          abbrev |-> None]
    ELSE LET r == get_abbrev(cache, section, UnitAbbrevHeader(index))
             parsed ==
                 IF ~r.ok
                 THEN ParsedUnit("error", "abbreviations", None)
                 ELSE IF ~top.dfs_ok
                 THEN ParsedUnit("error", "next_dfs", None)
                 ELSE IF ~IsSome(top.entry)
                 THEN ParsedUnit("ok", "", None)
                 ELSE LET e == Unwrap(top.entry) IN
                      IF ~IsCompileUnit(e.tag)
                      THEN ParsedUnit("error", "missing compilation unit", None)
                      ELSE IF ~e.attrs_ok
                      THEN ParsedUnit("error", "attr_value", None)
                      ELSE LET base_address ==
                                   IF IsSome(e.low_pc) THEN Unwrap(e.low_pc)
                                   ELSE IF IsSome(e.entry_pc) THEN Unwrap(e.entry_pc)
                                   ELSE 0
                           IN IF /\ IsSome(e.stmt_list)
                                 /\ Unwrap(e.stmt_list).form = "DebugLineRef"
                              THEN ParsedUnit("ok", "",
                                     Some([index |-> index,
                                           base_address |-> base_address,
                                           line_offset |-> Unwrap(e.stmt_list).offset]))
                              ELSE ParsedUnit("ok", "", None)
         IN [parsed |-> parsed, abbrev |-> Some(r)]

SectionNames == {LoadOrder[i] : i \in DOMAIN LoadOrder}

Objects == [sections : SUBSET SectionNames, wellformed : BOOLEAN]

TopEntries ==
    {[dfs_ok |-> FALSE, entry |-> None], [dfs_ok |-> TRUE, entry |-> None]} \cup
    {[dfs_ok |-> TRUE,
      entry |-> Some([tag |-> t, attrs_ok |-> a, low_pc |-> l, entry_pc |-> p,
                      stmt_list |-> sl])] :
        t \in {"compile_unit", "partial_unit", "subprogram"},
        a \in BOOLEAN,
        l \in {None, Some(1)},
        p \in {None, Some(2)},
        sl \in {None, Some([form |-> "DebugLineRef", offset |-> 0]),
                Some([form |-> "Udata", offset |-> 0])}}

InitOpen ==
    /\ overflow_checks = "unknown"
    /\ lp_pc = "idle" /\ sequences = <<>> /\ LineIdle
    /\ WalkIdle
    /\ NameIdle
    /\ location_entry = None /\ location = None
    /\ find_units = <<>> /\ find_offset = 0 /\ find_result = None
    /\ object \in Objects
    /\ info = None
    /\ unit_top = None
    /\ unit = NoUnit
    /\ debug_abbrev \in
          AbbrevSections({UnitAbbrevHeader(u).debug_abbrev_offset :
                             u \in 0..(NumUnits - 1)})
    /\ abbrev_cache = <<>> /\ abbrev_calls = <<>> /\ abbrev_result = None

\* DwarfInfo::from_object(obj): the DwarfInfo has an empty abbrev_cache.
FromObject ==
    /\ info = None
    /\ info' = Some(from_object(object))
    /\ UNCHANGED <<cacheVars, overflow_checks, object, unit_top, unit, lineVars,
                   walkVars, nameVars, locationVars>>

\* Unit::parse(info, index) on an opened object.
ParseUnit ==
    /\ IsSome(info) /\ Unwrap(info).status = "ok"
    /\ unit_top = None
    /\ \E index \in 0..NumUnits, top \in TopEntries :
         LET r == UnitParse(index, top, abbrev_cache, debug_abbrev) IN
         /\ unit_top' = Some([index |-> index, dfs_ok |-> top.dfs_ok,
                              entry |-> top.entry])
         /\ unit' = r.parsed
         /\ IF IsSome(r.abbrev)
            THEN AbbrevCall(UnitAbbrevHeader(index), Unwrap(r.abbrev))
            ELSE UNCHANGED <<abbrev_cache, abbrev_calls, abbrev_result>>
    /\ UNCHANGED <<overflow_checks, debug_abbrev, object, info, lineVars, walkVars,
                   nameVars, locationVars>>

NextOpen == FromObject \/ ParseUnit

SpecOpen == InitOpen /\ [][NextOpen]_vars

-----------------------------------------------------------------------------
(***************************************************************************)
(* SpecLocation: Unit::parse_location on one function entry.               *)
(***************************************************************************)
\* The entries parse_location is called on: with or without DW_AT_ranges
\* items, low_pc absent, 0, small or the largest u64, high_pc as an address
\* and as an offset.
LocationEntries ==
    {Entry(tag, ranges, low_pc, high_pc, high_pc_rel, call_line, None, None, None) :
        tag \in {"inlined_subroutine"},
        ranges \in {<<>>, <<Range(4, 6), Range(2, 3)>>},
        low_pc \in {None, Some(Mod64 - 1)} \cup {Some(a) : a \in 0..MaxAddr},
        high_pc \in {None} \cup {Some(a) : a \in 0..(MaxAddr + 1)},
        high_pc_rel \in {None} \cup {Some(a) : a \in 0..MaxAddr},
        call_line \in {None, Some(1)}}

InitLocation ==
    /\ overflow_checks = "unknown"
    /\ CacheIdle
    /\ lp_pc = "idle" /\ sequences = <<>> /\ LineIdle
    /\ WalkIdle
    /\ NameIdle
    /\ object = NoObject /\ info = None /\ unit_top = None /\ unit = NoUnit
    /\ location_entry \in {Some(e) : e \in LocationEntries}
    /\ location = None
    /\ find_units = <<>> /\ find_offset = 0 /\ find_result = None

\* self.parse_location(info, entry, range_buf)
ParseLocation ==
    /\ location = None
    /\ location' = Some(parse_location(Unwrap(location_entry)))
    /\ UNCHANGED <<cacheVars, overflow_checks, location_entry, find_units, find_offset,
                   find_result, lineVars, walkVars, nameVars, openVars>>

NextLocation == ParseLocation

SpecLocation == InitLocation /\ [][NextLocation]_vars

-----------------------------------------------------------------------------
(***************************************************************************)
(* SpecFind: DwarfInfo::find_unit_offset on the unit headers of an object. *)
(* The units of .debug_info follow each other from offset 0; each takes    *)
(* its header and one or two bytes of entries.                             *)
(***************************************************************************)
RECURSIVE LaidOut(_, _)
LaidOut(sizes, offset) ==
    IF sizes = <<>>
    THEN <<>>
    ELSE <<UnitHeader(offset, sizes[1])>> \o LaidOut(Tail(sizes), offset + sizes[1])

UnitLists ==
    UNION {{LaidOut(sizes, 0) : sizes \in [1..n -> {HeaderSize + 1, HeaderSize + 2}]} :
           n \in 0..(NumUnits + 1)}

InfoSize(units) == IF units = <<>> THEN 0 ELSE Last(units).offset + Last(units).size

InitFind ==
    /\ overflow_checks = "unknown"
    /\ CacheIdle
    /\ lp_pc = "idle" /\ sequences = <<>> /\ LineIdle
    /\ WalkIdle
    /\ NameIdle
    /\ object = NoObject /\ info = None /\ unit_top = None /\ unit = NoUnit
    /\ location_entry = None /\ location = None
    /\ find_units \in UnitLists
    /\ find_offset \in 0..(InfoSize(find_units) + 1)
    /\ find_result = None

\* info.find_unit_offset(offset)
FindUnitOffset ==
    /\ find_result = None
    /\ find_result' = Some(find_unit_offset(find_units, find_offset))
    /\ UNCHANGED <<cacheVars, overflow_checks, location_entry, location, find_units,
                   find_offset, lineVars, walkVars, nameVars, openVars>>

NextFind == FindUnitOffset

SpecFind == InitFind /\ [][NextFind]_vars

-----------------------------------------------------------------------------
(***************************************************************************)
(* SpecCache: DwarfInfo::get_abbrev, called any number of times on the     *)
(* headers of an object, from an empty cache.                              *)
(***************************************************************************)
InitCache ==
    /\ overflow_checks = "unknown" /\ lp_pc = "idle" /\ sequences = <<>>
    /\ LineIdle
    /\ WalkIdle
    /\ NameIdle
    /\ OpenIdle
    /\ debug_abbrev \in [AbbrevOffsets -> {"decls", "malformed"}]
    /\ abbrev_cache = <<>>
    /\ abbrev_calls = <<>>
    /\ abbrev_result = None

\* info.get_abbrev(header)
GetAbbrev ==
    /\ debug_abbrev # <<>>
    /\ Len(abbrev_calls) < MaxCalls
    /\ \E header \in AbbrevHeaders :
         AbbrevCall(header, get_abbrev(abbrev_cache, debug_abbrev, header))
    /\ UNCHANGED <<overflow_checks, debug_abbrev, lineVars, walkVars, nameVars,
                   openVars, locationVars>>

NextCache == GetAbbrev

SpecCache == InitCache /\ [][NextCache]_vars

-----------------------------------------------------------------------------
(***************************************************************************)
(* What the properties below speak of: the emitted Functions and the tree  *)
(* of the entries read so far.                                             *)
(***************************************************************************)
\* Every Function of a list, with those in `inlines` at any level, in
\* pre-order.
RECURSIVE Flatten(_)
Flatten(fs) ==
    IF fs = <<>>
    THEN <<>>
    ELSE <<fs[1]>> \o Flatten(fs[1].inlines) \o Flatten(Tail(fs))

Emitted == LET flat == Flatten(funcs) IN {flat[k] : k \in DOMAIN flat}
EmittedHere == {f \in Emitted : f.entry >= 1}
TimesEmitted(i) ==
    LET flat == Flatten(funcs) IN Cardinality({k \in DOMAIN flat : flat[k].entry = i})

RECURSIVE DepthAt(_)
DepthAt(i) == IF i = 0 THEN 0 ELSE DepthAt(i - 1) + dies[i].delta

\* Entry j lies in the subtree of entry i.
IsDescendant(i, j) ==
    i < j /\ \A k \in (i + 1)..j : DepthAt(k) > DepthAt(i)

FunctionDie(i) ==
    dies[i].tag = "subprogram" \/ dies[i].tag = "inlined_subroutine"
RangesOf(i) == parse_location(dies[i])
EmptyFunctionDie(i) ==
    FunctionDie(i) /\ RangesOf(i).ok /\ RangesOf(i).ranges = <<>>
RangedFunctionDie(i) ==
    FunctionDie(i) /\ RangesOf(i).ok /\ RangesOf(i).ranges # <<>>
EmptyAncestors(j) ==
    {i \in 1..Len(dies) : EmptyFunctionDie(i) /\ IsDescendant(i, j)}

IsSortedByAddr(fs) == \A i \in 1..(Len(fs) - 1) : fs[i].addr <= fs[i + 1].addr
Occurrences(fs, f) == Cardinality({k \in DOMAIN fs : fs[k] = f})
IsPermutation(fs, gs) ==
    /\ Len(fs) = Len(gs)
    /\ \A k \in DOMAIN fs : Occurrences(fs, fs[k]) = Occurrences(gs, fs[k])

-----------------------------------------------------------------------------
\* C1: after get_functions returns Ok, no two consecutive entries of the
\* `lines` of an emitted Function have the same original_file_id and the same
\* line, also after the call-site patches of its inline children.
C1_NoConsecutiveDuplicateLines ==
    pc = "ok" =>
        \A f \in Emitted : \A i \in 1..(Len(f.lines) - 1) :
            ~(/\ f.lines[i].original_file_id = f.lines[i + 1].original_file_id
              /\ f.lines[i].line = f.lines[i + 1].line)

\* C2: the step in which get_functions returns Ok leaves the function list
\* sorted by addr in non-decreasing order, and a permutation of what it was.
C2_SortedPermutation ==
    [][pc' = "ok" => (IsSortedByAddr(funcs') /\ IsPermutation(funcs, funcs'))]_vars

\* C2 witness: Ok with a function of an earlier unit in the list, and with a
\* function built from a later entry sorted before one built from an earlier
\* entry.
C2_Witness ==
    /\ pc = "ok"
    /\ \E k \in DOMAIN funcs : funcs[k].entry = 0
    /\ \E i, j \in DOMAIN funcs :
         /\ i < j /\ funcs[i].entry > funcs[j].entry /\ funcs[j].entry >= 1
         /\ funcs[i].addr < funcs[j].addr

\* The entry whose child entry j is.
ParentDie(j) ==
    IF \E i \in 1..(j - 1) : DepthAt(i) = DepthAt(j) - 1
    THEN CHOOSE i \in 1..(j - 1) :
            /\ DepthAt(i) = DepthAt(j) - 1
            /\ \A k \in (i + 1)..(j - 1) : DepthAt(k) # DepthAt(j) - 1
    ELSE 0

\* Every inlined_subroutine entry read is the child of a subprogram, of an
\* inlined_subroutine or of a lexical block.
InlinesAreNested ==
    \A j \in 1..Len(dies) : dies[j].tag = "inlined_subroutine" =>
        /\ ParentDie(j) # 0
        /\ dies[ParentDie(j)].tag \in
              {"subprogram", "inlined_subroutine", "lexical_block"}

\* C3: every Function stored in the `inlines` of a Function of this unit is
\* deeper than it (stated for units whose inlined_subroutine entries are all
\* nested in a function or block).
C3_InlineDeeperThanParent ==
    InlinesAreNested =>
        \A p \in EmittedHere :
            \A k \in DOMAIN p.inlines : p.inlines[k].depth > p.depth

\* C4: a function entry with empty ranges, at depth s, yields no Function and
\* neither does any entry of its subtree; while the walker is inside such a
\* subtree skipped_depth is Some(s) for the outermost such entry; at the
\* first entry outside it the walker is back to normal: skipped_depth is None
\* (or Some of that entry's own depth, when its ranges are empty too) and a
\* function entry with ranges has yielded its Function.
C4_SkippedSubtree ==
    /\ \A i \in 1..Len(dies) : EmptyFunctionDie(i) =>
         \A j \in i..Len(dies) :
            (j = i \/ IsDescendant(i, j)) => TimesEmitted(j) = 0
    /\ (pc = "walk" /\ Len(dies) >= 1) =>
         LET n == Len(dies) IN
         IF EmptyAncestors(n) # {}
         THEN skipped_depth = Some(SetMin({DepthAt(i) : i \in EmptyAncestors(n)}))
         ELSE IF EmptyFunctionDie(n)
         THEN skipped_depth = Some(depth)
         ELSE /\ skipped_depth = None
              /\ RangedFunctionDie(n) => TimesEmitted(n) = 1

\* C4 witness: an entry with empty ranges, then an entry of its subtree with
\* ranges, then an entry outside the subtree which has yielded a Function.
C4_Witness ==
    /\ pc = "walk"
    /\ Len(dies) >= 3
    /\ LET n == Len(dies) IN
       \E i, j \in 1..(n - 1) :
          /\ EmptyFunctionDie(i) /\ IsDescendant(i, j)
          /\ RangedFunctionDie(j)
          /\ j < n /\ ~IsDescendant(i, n)
          /\ TimesEmitted(n) = 1

\* C5: when get_functions returns Ok, the function entries with ranges and
\* without an ancestor function entry with empty ranges have each yielded
\* exactly one Function, a subprogram in the top-level list and an
\* inlined_subroutine in an `inlines` list, and nothing else was added.
C5_ExtractedEqualsInput ==
    pc = "ok" =>
        LET expected == {i \in 1..Len(dies) :
                            RangedFunctionDie(i) /\ EmptyAncestors(i) = {}}
            top == {funcs[k].entry : k \in DOMAIN funcs}
        IN /\ \A i \in expected :
                /\ TimesEmitted(i) = 1
                /\ (dies[i].tag = "subprogram") <=> (i \in top)
           /\ \A f \in Emitted : f.entry \in expected \cup {0}
           /\ TimesEmitted(0) <= 1

\* C5 witness: Ok with a Function of this unit in the list, and with a
\* function entry that has ranges and yielded none, being in the subtree of
\* an entry with empty ranges.
C5_Witness ==
    /\ pc = "ok"
    /\ EmittedHere # {}
    /\ \E i \in 1..Len(dies) : RangedFunctionDie(i) /\ TimesEmitted(i) = 0

\* C8: if vmaddr <= begin for every range of every function entry, then no
\* `address - vmaddr` of a Function or of a Line underflows: there is no
\* panic in one, and no addr is the wrapped difference.
C8_NoUnderflow ==
    (\A i \in 1..Len(dies) : RangedFunctionDie(i) =>
        \A k \in DOMAIN RangesOf(i).ranges : vmaddr <= RangesOf(i).ranges[k].begin)
    =>
    /\ ~(pc = "panic" /\ err \in {"ranges[0].begin - vmaddr", "row.address - vmaddr"})
    /\ \A f \in EmittedHere :
         /\ f.addr + vmaddr < Mod64
         /\ \A k \in DOMAIN f.lines : f.lines[k].addr + vmaddr < Mod64

\* C9: the len of an emitted Function whose ranges end at or after their
\* beginning is min(ranges.last.end - ranges[0].begin, 2^32 - 1).
C9_LenSaturates ==
    \A f \in EmittedHere :
        LET rs   == RangesOf(f.entry).ranges
            span == Last(rs).end - rs[1].begin
        IN span >= 0 => f.len = Min2(span, Mod32 - 1)

-----------------------------------------------------------------------------
StrictlyIncreasing(rows) ==
    \A i \in 1..(Len(rows) - 1) : rows[i].address < rows[i + 1].address

\* C6: in every sequence the interpreter has built, the row addresses are
\* strictly increasing.
C6_RowsStrictlyIncreasing ==
    \A s \in DOMAIN sequences : StrictlyIncreasing(sequences[s].rows)

\* C6 witness: two sequences were built, one of them has several rows and
\* begins below the last row of the other (the addresses of the program went
\* down across an end_sequence row).
C6_Witness ==
    \E s, t \in DOMAIN sequences :
        /\ s # t
        /\ Len(sequences[t].rows) >= 2
        /\ sequences[t].rows[1].address < Last(sequences[s].rows).address

\* C7: for a range with begin < end, get_rows returns a slice of the rows of
\* one sequence; every row of it lies below range.end, every row but the
\* first at or above range.begin, and a first row below range.begin is the
\* last row of that sequence below range.begin.
C7_RowsWithinRange ==
    (IsSome(rng) /\ Unwrap(rng).begin < Unwrap(rng).end) =>
        LET r    == Unwrap(rng)
            rows == RowsOf(sequences, rows_out)
        IN /\ rows_out.seq \in 0..Len(sequences)
           /\ rows_out.seq = 0 => rows_out.len = 0
           /\ rows_out.seq # 0 =>
                /\ rows_out.from >= 0 /\ rows_out.len >= 0
                /\ rows_out.from + rows_out.len <= Len(sequences[rows_out.seq].rows)
           /\ \A k \in DOMAIN rows : rows[k].address < r.end
           /\ \A k \in DOMAIN rows : k >= 2 => rows[k].address >= r.begin
           /\ (rows # <<>> /\ rows[1].address < r.begin) =>
                \A k \in DOMAIN sequences[rows_out.seq].rows :
                    LET a == sequences[rows_out.seq].rows[k].address
                    IN a < r.begin => a <= rows[1].address

\* C7 witness: a range with begin < end for which get_rows returned several
\* rows, the first of them below range.begin, and not the whole sequence.
C7_Witness ==
    /\ IsSome(rng)
    /\ Unwrap(rng).begin < Unwrap(rng).end
    /\ rows_out.seq # 0
    /\ rows_out.len >= 2
    /\ rows_out.from + rows_out.len < Len(sequences[rows_out.seq].rows)
    /\ RowsOf(sequences, rows_out)[1].address < Unwrap(rng).begin

-----------------------------------------------------------------------------
\* C10: name resolution ends for every input: calls of resolve_function_name
\* are never nested deeper than the object has entries, also when the
\* references of entries without a name form a cycle.
C10_ResolutionEnds == frames <= NumUnits

-----------------------------------------------------------------------------
\* The top DIE Unit::parse has read, when it has read one: the unit
\* exists, its abbreviations were decoded and next_dfs returned an entry.
TopDie == Unwrap(Unwrap(unit_top).entry)
ReadTopDie ==
    /\ IsSome(unit_top) /\ Unwrap(unit_top).index < NumUnits
    /\ IsSome(abbrev_result) /\ Unwrap(abbrev_result).ok
    /\ Unwrap(unit_top).dfs_ok /\ IsSome(Unwrap(unit_top).entry)

\* C11 as the spec states it: Unit::parse returns Ok(None) whenever the top
\* DIE of the unit is not a DW_TAG_compile_unit or has no DW_AT_stmt_list.
\* Stated for top DIEs whose attributes can be read.
C11_SkippedWithoutError ==
    (ReadTopDie /\ TopDie.attrs_ok
        /\ (TopDie.tag # "compile_unit" \/ ~IsSome(TopDie.stmt_list)))
    => (unit.status = "ok" /\ unit.unit = None)

\* C11 as the code has it: Unit::parse returns Ok(None) whenever the top DIE
\* of the unit is a DW_TAG_compile_unit that has no DW_AT_stmt_list and
\* whose attributes can be read; when the top DIE is not a
\* DW_TAG_compile_unit, it fails with "missing compilation unit", whether
\* or not the DIE has a DW_AT_stmt_list.
C11_SkippedOrMissingCompileUnit ==
    ReadTopDie =>
        /\ (TopDie.tag = "compile_unit" /\ TopDie.attrs_ok /\ ~IsSome(TopDie.stmt_list))
              => (unit.status = "ok" /\ unit.unit = None)
        /\ TopDie.tag # "compile_unit"
              => (unit.status = "error" /\ unit.err = "missing compilation unit")

\* C11 witness: a unit whose top DIE is not a compile_unit and has no
\* DW_AT_stmt_list was parsed, and the parse failed with "missing
\* compilation unit".
C11_Witness ==
    /\ ReadTopDie
    /\ TopDie.tag = "partial_unit" /\ ~IsSome(TopDie.stmt_list)
    /\ unit.status = "error" /\ unit.err = "missing compilation unit"

\* C13: from_object fails with MissingDebugSection exactly when one of the
\* sections info, abbrev, line is absent; otherwise an absent str, ranges or
\* rnglists section causes no failure of its own: the object opens when it is
\* well-formed, with the absent sections as empty buffers and the present
\* ones as their contents.
C13_MissingRequiredSection ==
    IsSome(info) =>
        LET r == Unwrap(info)
            required == {"info", "abbrev", "line"}
        IN /\ (r.status = "MissingDebugSection") <=> ~(required \subseteq object.sections)
           /\ r.status = "MissingDebugSection" =>
                r.section \in required \ object.sections
           /\ (required \subseteq object.sections /\ object.wellformed) =>
                /\ r.status = "ok"
                /\ \A k \in SectionNames :
                     r.buffers[k] = IF k \in object.sections THEN "bytes" ELSE "empty"

\* C13 witness: an object with the three required sections and none of the
\* optional ones was opened.
C13_Witness ==
    /\ IsSome(info)
    /\ object.sections = {"info", "abbrev", "line"}
    /\ Unwrap(info).status = "ok"
    /\ Unwrap(info).buffers["str"] = "empty"

-----------------------------------------------------------------------------
\* C12: when the decoding of the line program failed at some row,
\* get_functions does not return Ok with functions that have lines built
\* from the rows decoded before the failure.
C12_DecodeFailureIsError ==
    decode_failed => ~(pc = "ok" /\ \E f \in EmittedHere : f.lines # <<>>)

\* C14: an end_sequence row with accumulated rows adds one sequence: its
\* rows are the accumulated rows, low_address is the address of the first,
\* high_address is the address of the end_sequence row, or the address of
\* the last accepted row + 1 when the end_sequence address is below it; an
\* end_sequence row without accumulated rows adds no sequence; the end of
\* the program with accumulated rows adds the sequence with high_address =
\* last accepted address + 1.
C14_SequenceBounds ==
    [][lp_pc = "rows" =>
        LET \* the sequence the claim expects the accumulated rows to be closed
            \* as, by an end_sequence row at `address` or (closed_by_end =
            \* FALSE) by the end of the program; last + 1 is the integer
            \* after the last accepted address
            expected(closed_by_end, address) ==
                LET last == Last(sequence_rows).address IN
                DwarfSeq(sequence_rows[1].address,
                         IF closed_by_end /\ address >= last THEN address ELSE last + 1,
                         sequence_rows)
        IN
        /\ (nrows' = nrows + 1 /\ Unwrap(program_row').end_sequence) =>
              sequences' = IF sequence_rows = <<>>
                           THEN sequences
                           ELSE Append(sequences,
                                       expected(TRUE, Unwrap(program_row').address))
        /\ (nrows' = nrows /\ sequence_rows # <<>>) =>
              IsPermutation(sequences', Append(sequences, expected(FALSE, 0)))
      ]_vars

-----------------------------------------------------------------------------
\* C15: parse_location returns the collected DW_AT_ranges items when there
\* are any, whatever low_pc and high_pc are.  Without any, it returns empty
\* ranges when low_pc is absent or 0; otherwise, with high the absolute
\* high_pc, or (low_pc + high_pc_rel) mod 2^64 when high_pc is an offset, it
\* returns empty ranges when low_pc = high, fails with "invalid function
\* with inverted range" when low_pc > high, and returns the one range
\* [low_pc, high) when low_pc < high.
C15_ParseLocation ==
    IsSome(location) =>
        LET e == Unwrap(location_entry)
            r == Unwrap(location)
        IN IF e.ranges # <<>>
           THEN r.ok /\ r.ranges = e.ranges
           ELSE IF e.low_pc = None \/ e.low_pc = Some(0)
           THEN r.ok /\ r.ranges = <<>>
           ELSE (IsSome(e.high_pc) \/ IsSome(e.high_pc_rel)) =>
                LET low  == Unwrap(e.low_pc)
                    high == IF IsSome(e.high_pc)
                            THEN Unwrap(e.high_pc)
                            ELSE (low + Unwrap(e.high_pc_rel)) % Mod64
                IN /\ low = high => (r.ok /\ r.ranges = <<>>)
                   /\ low > high =>
                        (~r.ok /\ r.err = "invalid function with inverted range")
                   /\ low < high =>
                        (r.ok /\ r.ranges = <<[begin |-> low, end |-> high]>>)

\* C15 witness: parse_location was called on an entry without DW_AT_ranges
\* whose low_pc + high_pc_rel passes 2^64, and failed on the wrapped sum.
C15_Witness ==
    /\ IsSome(location)
    /\ Unwrap(location_entry).ranges = <<>>
    /\ Unwrap(location_entry).low_pc = Some(Mod64 - 1)
    /\ Unwrap(location_entry).high_pc = None
    /\ Unwrap(location_entry).high_pc_rel = Some(2)
    /\ ~Unwrap(location).ok

-----------------------------------------------------------------------------
\* C16: each call of resolve_function_name on an entry returns its linkage
\* name if it has one; else its DW_AT_name if it has one; else, if it has a
\* reference that denotes an entry, what the resolution of that entry
\* returns; and no name if it has none of the three.  Stated for objects
\* all of whose abbreviations decode.
C16_NameOfEntry ==
    [][(name_pc = "resolve" /\ \A o \in AbbrevOffsets : debug_abbrev[o] = "decls") =>
        LET e == Unwrap(entries'[cur[1] + 1])
            \* the entry the claim takes a reference carried by the entry at
            \* `at` to denote: a UnitRef is an offset in the unit of the entry
            \* that carries it, a DebugInfoRef an offset in .debug_info; None
            \* when the offset is not that of an entry
            denoted(at, value) ==
                IF value.kind = "UnitRef"
                THEN IF value.offset = HeaderSize
                     THEN Some(<<at[1], value.offset>>) ELSE None
                ELSE IF value.kind = "DebugInfoRef"
                THEN IF /\ value.offset < NumUnits * UnitSize
                        /\ value.offset % UnitSize = HeaderSize
                     THEN Some(<<value.offset \div UnitSize, HeaderSize>>)
                     ELSE None
                ELSE None
        IN
        IF e.null
        THEN name_pc' = "ok" /\ name_out' = None
        ELSE IF IsSome(e.linkage_name)
        THEN name_pc' = "ok" /\ name_out' = Unwrap(e.linkage_name)
        ELSE IF IsSome(e.name)
        THEN name_pc' = "ok" /\ name_out' = Unwrap(e.name)
        ELSE IF IsSome(e.reference)
        THEN IsSome(denoted(cur, Unwrap(e.reference))) =>
                /\ name_pc' = "resolve"
                /\ cur' = Unwrap(denoted(cur, Unwrap(e.reference)))
        ELSE name_pc' = "ok" /\ name_out' = None
      ]_vars

\* C20: with the unit headers sorted by offset, find_unit_offset(g) fails
\* with "could not find compilation unit at address" exactly when there are
\* no units or g lies below the offset of unit 0; otherwise, with i the
\* greatest index whose offset is <= g, it returns (i, g - offset_i) when g
\* lies in the entries of unit i, and fails with "compilation unit out of
\* range" when it does not (g lies in the header of unit i or past its end).
C20_FindUnitOffset ==
    IsSome(find_result) =>
        LET r == Unwrap(find_result)
            g == find_offset
            below == find_units = <<>> \/ g < find_units[1].offset
        IN /\ (~r.ok /\ r.err = "could not find compilation unit at address") <=> below
           /\ ~below =>
                LET i == CHOOSE k \in DOMAIN find_units :
                            /\ find_units[k].offset <= g
                            /\ \A j \in DOMAIN find_units :
                                  find_units[j].offset <= g => j <= k
                    off == g - find_units[i].offset
                IN IF off >= HeaderSize /\ off < find_units[i].size
                   THEN r.ok /\ r.index = i - 1 /\ r.offset = off
                   ELSE ~r.ok /\ r.err = "compilation unit out of range"

\* C20 witness: in an object of several units an offset inside the entries
\* of a unit after the first, and not the first of its entries, was found.
C20_Witness ==
    /\ IsSome(find_result)
    /\ Len(find_units) >= 3
    /\ Unwrap(find_result).ok
    /\ Unwrap(find_result).index = 1
    /\ Unwrap(find_result).offset = HeaderSize + 1

-----------------------------------------------------------------------------
\* The pairs <<p.entry, c.entry>> of a Function p of the list (at any
\* level) and a Function c in p.inlines.
RECURSIVE InlinePairs(_)
InlinePairs(fs) ==
    IF fs = <<>>
    THEN {}
    ELSE {<<fs[1].entry, fs[1].inlines[k].entry>> : k \in DOMAIN fs[1].inlines}
         \cup InlinePairs(fs[1].inlines) \cup InlinePairs(Tail(fs))

\* The function entries in whose subtree entry j lies and which yielded a
\* Function.
EmittedAncestors(j) ==
    {i \in 1..(j - 1) : IsDescendant(i, j) /\ FunctionDie(i) /\ TimesEmitted(i) >= 1}

SetMax(S) == CHOOSE x \in S : \A y \in S : x >= y

\* C17: the Function built from an inlined_subroutine entry that lies in
\* the subtree of an emitted function entry is in the `inlines` of the
\* Function built from the nearest such ancestor.
C17_InlinesMirrorNesting ==
    \A pair \in InlinePairs(funcs) :
        (pair[2] >= 1 /\ EmittedAncestors(pair[2]) # {}) =>
            pair[1] = SetMax(EmittedAncestors(pair[2]))

\* The Function built from entry i, in a list of Functions.
FunctionOf(fs, i) ==
    LET flat == Flatten(fs) IN flat[CHOOSE k \in DOMAIN flat : flat[k].entry = i]

ParentOf(fs, j) == (CHOOSE pair \in InlinePairs(fs) : pair[2] = j)[1]

\* C18: the step that attaches the Function c of an inlined_subroutine entry
\* to its parent p changes p.lines as follows.  With call_line and
\* call_file: an entry with addr = c.addr existed and is now [c.addr,
\* call_file, min(call_line, 0xffff)], or none existed and that entry was
\* inserted; the other entries are unchanged.  Without one of them: p.lines
\* is unchanged.
C18_CallSitePatch ==
    [][(pc = "walk" /\ pc' = "walk" /\ Len(dies') = Len(dies) + 1
            /\ \E pair \in InlinePairs(funcs') : pair[2] = Len(dies')
            /\ dies'[Len(dies')].tag = "inlined_subroutine") =>
        LET n      == Len(dies')
            die    == dies'[n]
            c      == FunctionOf(funcs', n)
            p      == ParentOf(funcs', n)
            before == FunctionOf(funcs, p).lines
            after  == FunctionOf(funcs', p).lines
            at     == {k \in DOMAIN before : before[k].addr = c.addr}
        IN IF IsSome(die.call_line) /\ IsSome(die.call_file)
           THEN /\ \E k \in DOMAIN after :
                     /\ after[k].addr = c.addr
                     /\ after[k].original_file_id = Unwrap(die.call_file)
                     /\ after[k].line = Min2(Unwrap(die.call_line), Max16)
                /\ IF at # {}
                   THEN /\ Len(after) = Len(before)
                        /\ \E k \in at :
                             \A j \in DOMAIN before : j # k => after[j] = before[j]
                   ELSE /\ Len(after) = Len(before) + 1
                        /\ \E k \in DOMAIN after :
                             /\ after[k].addr = c.addr
                             /\ before = SubSeq(after, 1, k - 1)
                                           \o SubSeq(after, k + 1, Len(after))
           ELSE after = before
      ]_vars

\* C19: a Function of an earlier unit never receives an inline of this unit;
\* and when an inlined_subroutine entry with ranges, outside any skipped
\* subtree, is visited while no entry of this unit has yielded a Function,
\* get_functions does not go on (it fails, or the process ends).
C19_NoForeignInlineParent ==
    /\ \A k \in DOMAIN funcs : funcs[k].entry = 0 => funcs[k].inlines = <<>>
    /\ LET n == Len(dies) IN
       (/\ n >= 1
        /\ dies[n].tag = "inlined_subroutine"
        /\ RangedFunctionDie(n)
        /\ EmptyAncestors(n) = {}
        /\ \A i \in 1..(n - 1) : TimesEmitted(i) = 0)
       => pc \in {"error", "panic", "abort"}

-----------------------------------------------------------------------------
\* C22: whenever some sequence covers range.begin (low_address <=
\* range.begin < high_address), get_rows(range) returns rows of a sequence
\* that covers range.begin, never the last row of an earlier sequence whose
\* high_address equals range.begin.  Stated for line programs all of whose
\* sequences are proper intervals (low_address < high_address).
C22_RowsOfCoveringSequence ==
    LET Covers(seq, address) ==
            seq.low_address <= address /\ address < seq.high_address
    IN
    (/\ lp_pc = "parsed"
     /\ \A s \in DOMAIN sequences : sequences[s].low_address < sequences[s].high_address
     /\ IsSome(rng)
     /\ Unwrap(rng).begin < Unwrap(rng).end
     /\ \E s \in DOMAIN sequences : Covers(sequences[s], Unwrap(rng).begin))
    => /\ rows_out.seq # 0
       /\ Covers(sequences[rows_out.seq], Unwrap(rng).begin)

-----------------------------------------------------------------------------
\* C23: a unit-local reference (UnitRef) found on a DIE during name
\* resolution is resolved inside the unit that contains that DIE, also when
\* the DIE was itself reached through a cross-unit reference (DebugInfoRef)
\* from a different unit: the resolver goes on with the entry at that unit
\* offset of the DIE's own unit.  Stated for objects all of whose
\* abbreviations decode.
C23_UnitRefInOwnUnit ==
    [][(name_pc = "resolve" /\ \A o \in AbbrevOffsets : debug_abbrev[o] = "decls") =>
        LET e == Unwrap(entries'[cur[1] + 1]) IN
        (/\ ~e.null
         /\ NameOrReference(e).kind = "reference"
         /\ Unwrap(e.reference).kind = "UnitRef"
         /\ IsValidOffset(Units[cur[1] + 1], Unwrap(e.reference).offset))
        => /\ name_pc' = "resolve"
           /\ cur' = <<cur[1], Unwrap(e.reference).offset>>
      ]_vars

-----------------------------------------------------------------------------
LinesSortedByAddr(lines) ==
    \A i \in 1..(Len(lines) - 1) : lines[i].addr <= lines[i + 1].addr

\* C24: whenever the call-site patch binary-searches the lines of a parent
\* by addr, those lines are sorted by addr in non-decreasing order; and when
\* get_functions returns Ok, the lines of every Function it has built are
\* sorted by addr in non-decreasing order.  Stated for an image at vmaddr 0,
\* where rebasing leaves every row address as it is.
C24_LinesSortedByAddr ==
    [][vmaddr = 0 =>
       /\ (pc = "walk" /\ pc' = "walk" /\ Len(dies') = Len(dies) + 1
            /\ \E pair \in InlinePairs(funcs') : pair[2] = Len(dies')
            /\ dies'[Len(dies')].tag = "inlined_subroutine"
            /\ IsSome(dies'[Len(dies')].call_line)
            /\ IsSome(dies'[Len(dies')].call_file))
          => LinesSortedByAddr(FunctionOf(funcs, ParentOf(funcs', Len(dies'))).lines)
       /\ (pc = "walk" /\ pc' = "ok")
          => \A i \in 1..Len(dies) :
                TimesEmitted(i)' >= 1 => LinesSortedByAddr(FunctionOf(funcs', i).lines)
      ]_vars

\* C25: when get_functions returns an error, the caller's list of functions
\* is what it was before the call: no Function of the failed unit is in it,
\* at the top level or in the inlines of an earlier unit's function, and the
\* functions it held are as they were.
C25_ErrorLeavesListUnchanged ==
    LET \* the list get_functions was called with: the function of the
        \* earlier unit as it was then, when the list held it
        at_call == IF \E k \in DOMAIN funcs : funcs[k].entry = 0
                   THEN <<EarlierFunction>>
                   ELSE <<>>
    IN pc = "error" => funcs = at_call

-----------------------------------------------------------------------------
CacheKeys(cache) == {cache[i].key : i \in DOMAIN cache}

\* The number of the last call that used the table of an offset (a call that
\* returned Ok), 0 when there was none.
LastUse(calls, offset) ==
    LET uses == {i \in DOMAIN calls : calls[i].offset = offset /\ calls[i].ok}
    IN IF uses = {} THEN 0 ELSE SetMax(uses)

\* C21: after any get_abbrev call the cache holds at most CacheCapacity
\* tables under distinct offsets, each the table decoded at its offset.  A
\* hit returns Ok and leaves the set of cached offsets as it is; a miss whose
\* decoding fails returns an error and leaves the cache unchanged; a miss
\* whose decoding succeeds returns Ok and adds the offset, and when the cache
\* was full removes the cached offset whose last use (hits included) is the
\* oldest.  An Ok result is the table decoded at the header's own offset.
C21_AbbrevCache ==
    [][abbrev_calls' # abbrev_calls =>
        LET call   == Last(abbrev_calls')
            offset == call.offset
            before == abbrev_cache
            after  == abbrev_cache'
            result == Unwrap(abbrev_result')
        IN /\ Len(after) <= CacheCapacity
           /\ \A i, j \in DOMAIN after : after[i].key = after[j].key => i = j
           /\ \A i \in DOMAIN after :
                /\ debug_abbrev[after[i].key] # "malformed"
                /\ after[i].value = [at |-> after[i].key,
                                     decls |-> debug_abbrev[after[i].key]]
           /\ call.ok = result.ok
           /\ IF offset \in CacheKeys(before)
              THEN result.ok /\ CacheKeys(after) = CacheKeys(before)
              ELSE IF debug_abbrev[offset] = "malformed"
              THEN ~result.ok /\ after = before
              ELSE /\ result.ok
                   /\ IF Len(before) < CacheCapacity
                      THEN CacheKeys(after) = CacheKeys(before) \cup {offset}
                      ELSE \E victim \in CacheKeys(before) :
                             /\ \A k \in CacheKeys(before) :
                                   LastUse(abbrev_calls, victim) <= LastUse(abbrev_calls, k)
                             /\ CacheKeys(after) =
                                   (CacheKeys(before) \ {victim}) \cup {offset}
           /\ result.ok =>
                result.table = Some([at |-> offset, decls |-> debug_abbrev[offset]])
      ]_vars

\* C21 witness: the cache is full, a table that was used before has been
\* evicted from it, an earlier call was a hit on a table that is still
\* cached, and a call has failed to decode.
C21_Witness ==
    /\ Len(abbrev_cache) = CacheCapacity
    /\ \E i \in DOMAIN abbrev_calls :
         abbrev_calls[i].ok /\ abbrev_calls[i].offset \notin CacheKeys(abbrev_cache)
    /\ \E i, j \in DOMAIN abbrev_calls :
         /\ i < j
         /\ abbrev_calls[i].ok /\ abbrev_calls[j].ok
         /\ abbrev_calls[i].offset = abbrev_calls[j].offset
         /\ abbrev_calls[i].offset \in CacheKeys(abbrev_cache)
    /\ \E i \in DOMAIN abbrev_calls : ~abbrev_calls[i].ok

=============================================================================
